---- MODULE Spec2Model ----
(***************************************************************************)
(* filebrowser_safe/base.py: the file handles FileObject (transient) and   *)
(* FieldFileObject (bound), their lazily cached attributes, and the        *)
(* storage backend (default_storage) they query.                           *)
(*                                                                         *)
(* A Python value that may be None is an option: None is <<>>, a present   *)
(* value v is <<v>>.  A path is a sequence of one-character strings.       *)
(* The storage is an external collaborator: each operation on the handle   *)
(* is given the answers b the storage has for the handle's path while the  *)
(* operation runs, and every call made is kept with its answer.            *)
(*                                                                         *)
(* Spec is the handle over a storage that answers every call.  SpecFail    *)
(* adds the storage operations that fail with an error, and datetime.      *)
(* SpecPure adds the accessors that keep nothing: datetime, the path       *)
(* attributes, str, repr and len.                                          *)
(***************************************************************************)
EXTENDS Integers, Sequences, FiniteSets, TLC

VARIABLES
    h,      \* the handle: its attributes, *_stored slots and instance __dict__
    args,   \* the keyword arguments the handle was constructed with
    res,    \* the latest operation on the handle: outcome and calls it made
    seen,   \* per lazy attribute, the value its accessor returned last
    calls   \* per resolving backend operation, the calls it answered so far

vars == <<h, args, res, seen, calls>>

None == <<>>
Some(v) == <<v>>

(* ------------------------------ bounds --------------------------------- *)

\* at most this many keyword arguments are given to FileObject(path, **kwargs)
MaxSeeded == 2
\* the backend lists 0..MaxChildren child directories and as many child files
MaxChildren == 1
\* the answered calls of one backend operation are counted up to CallCap
CallCap == 2

(* ------------------------------ domains -------------------------------- *)

Paths == { <<"d">>, <<"d", "/", "A", ".", "j">> }
Names == Paths \cup { <<>> }

DateTime(s, us) == [sec |-> s, usec |-> us]
DateTimes == { DateTime(0, 5), DateTime(10, 0) }

Sizes == {0, 42}
Urls == { <<"/", "u">>, <<"/", "v">> }
SeedUrls == { <<"/", "u">> }
SaveOptions == BOOLEAN

\* what default_storage answers for the handle's path while one operation on
\* the handle runs; the storage is free to change between operations
\* the exceptions a storage operation can fail with: a backend-defined I/O
\* error, and the decoding error of a listing
Errors == {"IOError", "UnicodeDecodeError"}

\* no storage operation fails
NoFail == [op |-> "", exc |-> ""]

\* the storage operation that fails while one operation on the handle runs,
\* and the exception it fails with
Failures(ops, excs) == { NoFail } \cup [op : ops, exc : excs]

Backends ==
    [ exists : BOOLEAN, isdir : BOOLEAN, size : {0, 10},
      mtime : { DateTime(0, 0), DateTime(10, 5) },
      dirs : 0..MaxChildren, files : 0..MaxChildren, url : Urls,
      fail : { NoFail } ]

Quiet ==
    [ exists |-> FALSE, isdir |-> FALSE, size |-> 0, mtime |-> DateTime(0, 0),
      dirs |-> 0, files |-> 0, url |-> <<"/", "u">>, fail |-> NoFail ]

\* the backends that differ from Quiet in the answers `asked` only
Answers(asked) ==
    { b \in Backends : \A f \in (DOMAIN b) \ asked : b[f] = Quiet[f] }

\* the backends of S where one of the operations ops fails with one of excs
Failing(S, ops, excs) ==
    { [ b EXCEPT !.fail = f ] : b \in S, f \in Failures(ops, excs) \ { NoFail } }

LazyAttrs == {"filetype", "filesize", "date", "exists", "is_folder", "url"}

\* the backend operations that resolve the lazy attributes
Resolvers == {"size", "modified_time", "exists", "isdir", "url"}

(* ----------------------- os.path, time, mimetypes ---------------------- *)

RFind(s, c) ==
    IF \E i \in 1..Len(s) : s[i] = c
    THEN CHOOSE i \in 1..Len(s) : s[i] = c /\ \A j \in (i+1)..Len(s) : s[j] # c
    ELSE 0

RECURSIVE RStrip(_, _)
RStrip(s, c) ==
    IF Len(s) > 0 /\ s[Len(s)] = c THEN RStrip(SubSeq(s, 1, Len(s) - 1), c) ELSE s

\* os.path.dirname
Dirname(p) ==
    LET head == SubSeq(p, 1, RFind(p, "/"))
    IN  IF head # <<>> /\ \E i \in 1..Len(head) : head[i] # "/"
        THEN RStrip(head, "/") ELSE head

\* os.path.basename
Basename(p) == SubSeq(p, RFind(p, "/") + 1, Len(p))

\* os.path.splitext of a filename (no separator in it): <<root, extension>>
Splitext(f) ==
    LET d == RFind(f, ".")
    IN  IF d > 0 /\ \E i \in 1..(d-1) : f[i] # "."
        THEN << SubSeq(f, 1, d - 1), SubSeq(f, d, Len(f)) >>
        ELSE << f, <<>> >>

LowerChar(c) == IF c = "A" THEN "a" ELSE c
\* str.lower
Lower(s) == [i \in 1..Len(s) |-> LowerChar(s[i])]

\* mimetypes.guess_type: <<type, encoding>>, by the lower-cased extension
GuessType(f) ==
    IF Lower(Splitext(f)[2]) = <<".", "j">> THEN << Some("image/jpeg"), None >>
    ELSE << None, None >>

\* time.mktime(dt.timetuple()): a time tuple has no microseconds
Mktime(dt) == dt.sec

\* datetime.datetime.fromtimestamp of a whole number of seconds
Fromtimestamp(ts) == DateTime(ts, 0)

\* bool(v) of a number or None
Truthy(v) == v # None /\ v[1] # 0

RECURSIVE LStrip(_, _)
\* str.lstrip
LStrip(s, c) ==
    IF Len(s) > 0 /\ s[1] = c THEN LStrip(SubSeq(s, 2, Len(s)), c) ELSE s

\* str.startswith
StartsWith(s, pre) == Len(pre) <= Len(s) /\ SubSeq(s, 1, Len(pre)) = pre

\* os.path.join(p, '')
JoinEmpty(p) ==
    IF p = <<>> \/ p[Len(p)] = "/" THEN p ELSE p \o << "/" >>

\* the base directories get_directory() can be configured to return
Directories == { << "d" >>, << "d", "/" >> }

\* filebrowser_safe.functions.path_strip: path without the prefix root
path_strip(p, root) ==
    IF StartsWith(p, root) THEN SubSeq(p, Len(root) + 1, Len(p)) ELSE p

\* filebrowser_safe.functions.get_file_type: the label of the extension
get_file_type(filename) ==
    IF Lower(Splitext(filename)[2]) = <<".", "j">> THEN "Image" ELSE "Unknown"

(* ------------------------- outcomes and calls -------------------------- *)

\* one call the handle made: a backend operation on a path with its answer,
\* the classifier on a filename, or the FutureWarning of FieldFileObject.path
Call(op, path, ans) == [op |-> op, path |-> path, ans |-> ans, exc |-> ""]

\* a call that raised exc instead of answering
Failed(op, path, exc) == [op |-> op, path |-> path, ans |-> None, exc |-> exc]

\* the outcome of evaluating an expression on handle hh: the handle afterwards,
\* "ret" with a value or "raise" with an exception, and the calls made
Ret(hh, v, tr) == [h |-> hh, kind |-> "ret", val |-> v, exc |-> "", trace |-> tr]
Raise(hh, e, tr) == [h |-> hh, kind |-> "raise", val |-> None, exc |-> e, trace |-> tr]

\* how many calls of op a trace holds
Count(tr, op) == Cardinality({i \in 1..Len(tr) : tr[i].op = op})

\* how many calls of op in a trace were answered
Answered(tr, op) ==
    Cardinality({i \in 1..Len(tr) : tr[i].op = op /\ tr[i].exc = ""})

HasCall(tr, op) == \E i \in 1..Len(tr) : tr[i].op = op

\* the first call of op in a trace that holds one
TheCall(tr, op) == tr[CHOOSE i \in 1..Len(tr) : tr[i].op = op]

(* ------------------------------ the classes ---------------------------- *)

\* the class attributes every handle starts from, and an empty __dict__
ClassDefaults ==
    [ kind |-> "transient", path |-> <<>>,
      head |-> <<>>, filename |-> <<>>, filename_lower |-> <<>>,
      filename_root |-> <<>>, extension |-> <<>>, mimetype |-> << None, None >>,
      filetype_stored |-> None, filesize_stored |-> None, date_stored |-> None,
      exists_stored |-> None, is_folder_stored |-> None, url_stored |-> None,
      dict |-> [ filetype |-> None, filesize |-> None, date |-> None,
                 exists |-> None, is_folder |-> None ] ]

\* FileObjectAPI.__init__(self, path)
FileObjectAPI_init(hh, path) ==
    [ hh EXCEPT !.head = Dirname(path),
                !.filename = Basename(path),
                !.filename_lower = Lower(Basename(path)),
                !.filename_root = Splitext(Basename(path))[1],
                !.extension = Splitext(Basename(path))[2],
                !.mimetype = GuessType(Basename(path)) ]

NoKwargs ==
    [ is_dir |-> None, size |-> None, exists |-> None,
      last_modified |-> None, url |-> None ]

\* FileObject.__init__ that seeds the folder flag only, not the file type
FileObject_flag_only(path, kw) ==
    LET h1 == [ ClassDefaults EXCEPT !.kind = "transient", !.path = path ]
        h2 == IF kw.is_dir # None
              THEN [ h1 EXCEPT !.is_folder_stored = kw.is_dir ]
              ELSE h1
        h3 == [ h2 EXCEPT !.filesize_stored = kw.size,
                          !.exists_stored = kw.exists ]
        h4 == IF kw.last_modified # None
              THEN [ h3 EXCEPT !.date_stored = Some(Mktime(kw.last_modified[1])) ]
              ELSE h3
        h5 == [ h4 EXCEPT !.url_stored = kw.url ]
    IN  FileObjectAPI_init(h5, path)

\* FileObject.__init__(self, path, **kwargs)
FileObject(path, kw) ==
    LET h1 == [ ClassDefaults EXCEPT !.kind = "transient", !.path = path ]
        h2 == IF kw.is_dir = Some(TRUE)
              THEN [ h1 EXCEPT !.filetype_stored = Some("Folder"),
                               !.is_folder_stored = Some(TRUE) ]
              ELSE IF kw.is_dir # None
                   THEN [ h1 EXCEPT !.is_folder_stored = Some(FALSE) ]
                   ELSE h1
        h3 == [ h2 EXCEPT !.filesize_stored = kw.size,
                          !.exists_stored = kw.exists ]
        h4 == IF kw.last_modified # None
              THEN [ h3 EXCEPT !.date_stored = Some(Mktime(kw.last_modified[1])) ]
              ELSE h3
        h5 == [ h4 EXCEPT !.url_stored = kw.url ]
    IN  FileObjectAPI_init(h5, path)

\* FieldFileObject.__init__(self, instance, field, path); path is self.name
FieldFileObject(path) ==
    FileObjectAPI_init([ ClassDefaults EXCEPT !.kind = "bound", !.path = path ], path)

\* the calls of `default_storage.op(self.path)`: FieldFileObject.path warns first
Storage(hh, op, ans) ==
    IF hh.kind = "bound"
    THEN << Call("warn", <<>>, None), Call(op, hh.path, ans) >>
    ELSE << Call(op, hh.path, ans) >>

\* the calls of `default_storage.op(self.path)` when the operation raises exc
StorageRaised(hh, op, exc) ==
    IF hh.kind = "bound"
    THEN << Call("warn", <<>>, None), Failed(op, hh.path, exc) >>
    ELSE << Failed(op, hh.path, exc) >>

\* the outcome of `default_storage.op(self.path)` under the storage b: the
\* answer ans, or the exception the operation fails with; nothing is caught
Backend(hh, b, op, ans) ==
    IF b.fail.op = op
    THEN Raise(hh, b.fail.exc, StorageRaised(hh, op, b.fail.exc))
    ELSE Ret(hh, ans, Storage(hh, op, ans))

\* FieldFileObject.path without the warning
path_silent(hh) == Ret(hh, Some(hh.path), <<>>)

\* self.path: an attribute of FileObject; the property of FieldFileObject
\* warns and returns self.name
path(hh) ==
    IF hh.kind = "bound"
    THEN Ret(hh, Some(hh.path), << Call("warn", <<>>, None) >>)
    ELSE Ret(hh, Some(hh.path), <<>>)

\* self.name: FileObject.name returns self.path; FieldFile keeps name
name(hh) == Ret(hh, Some(hh.path), <<>>)

(* --------------------- django's cached_property ------------------------ *)

\* the value is in the instance __dict__: the decorated function is not run
CacheHit(hh, attr) == Ret(hh, hh.dict[attr][1], <<>>)

\* the decorated function ran: what it returned goes to the instance __dict__
\* (an exception leaves the __dict__ alone)
CacheStore(r, attr) ==
    IF r.kind = "ret" THEN [ r EXCEPT !.h.dict[attr] = Some(r.val) ] ELSE r

(* --------------------------- FileObjectAPI ----------------------------- *)

\* calling a value, as in `self.exists()`: exists is a cached_property, so the
\* value called is the bool it evaluates to, and a bool is not callable
PyCall(v) == [ kind |-> "raise", exc |-> "TypeError", val |-> None ]

\* the body of is_folder
is_folder_func(hh, b) == Backend(hh, b, "isdir", Some(b.isdir))

\* is_folder as a plain property: the body runs on every access
is_folder_uncached(hh, b) == is_folder_func(hh, b)

\* self.is_folder
is_folder(hh, b) ==
    IF hh.dict.is_folder # None THEN CacheHit(hh, "is_folder")
    ELSE CacheStore(is_folder_func(hh, b), "is_folder")

\* the body of exists testing the slot for truth, not for None
exists_func_truthy(hh, b) ==
    IF hh.exists_stored # Some(TRUE)
    THEN Ret([ hh EXCEPT !.exists_stored = Some(b.exists) ], Some(b.exists),
             Storage(hh, "exists", Some(b.exists)))
    ELSE Ret(hh, hh.exists_stored, <<>>)

\* the body of exists
exists_func(hh, b) ==
    IF hh.exists_stored = None
    THEN LET s == Backend(hh, b, "exists", Some(b.exists))
         IN  IF s.kind = "raise" THEN s
             ELSE Ret([ hh EXCEPT !.exists_stored = s.val ], s.val, s.trace)
    ELSE Ret(hh, hh.exists_stored, <<>>)

\* exists keeping only a found path, the way filesize and date are meant to
exists_found_only(hh, b) ==
    IF hh.exists_stored = Some(TRUE) THEN Ret(hh, hh.exists_stored, <<>>)
    ELSE Ret([ hh EXCEPT !.exists_stored = Some(b.exists) ], Some(b.exists),
             Storage(hh, "exists", Some(b.exists)))

\* self.exists
exists(hh, b) ==
    IF hh.dict.exists # None THEN CacheHit(hh, "exists")
    ELSE CacheStore(exists_func(hh, b), "exists")

\* the body of filetype asking the classifier whatever is_folder says
filetype_func_classify(hh, b) ==
    IF hh.filetype_stored # None THEN Ret(hh, hh.filetype_stored, <<>>)
    ELSE LET f == is_folder(hh, b)
         IN  IF f.kind = "raise" THEN f
             ELSE LET label == get_file_type(f.h.filename)
                  IN  Ret([ f.h EXCEPT !.filetype_stored = Some(label) ], Some(label),
                          f.trace \o << Call("get_file_type", f.h.filename, Some(label)) >>)

\* the body of filetype
filetype_func(hh, b) ==
    IF hh.filetype_stored # None THEN Ret(hh, hh.filetype_stored, <<>>)
    ELSE LET f == is_folder(hh, b)
         IN  IF f.kind = "raise" THEN f
             ELSE IF f.val = Some(TRUE)
             THEN Ret([ f.h EXCEPT !.filetype_stored = Some("Folder") ],
                      Some("Folder"), f.trace)
             ELSE LET label == get_file_type(f.h.filename)
                  IN  Ret([ f.h EXCEPT !.filetype_stored = Some(label) ], Some(label),
                          f.trace \o << Call("get_file_type", f.h.filename, Some(label)) >>)

\* self.filetype
filetype(hh, b) ==
    IF hh.dict.filetype # None THEN CacheHit(hh, "filetype")
    ELSE CacheStore(filetype_func(hh, b), "filetype")

\* the body of filesize testing the slot for truth, not for None
filesize_func_truthy(hh, b) ==
    IF hh.filesize_stored # None /\ hh.filesize_stored # Some(0)
    THEN Ret(hh, hh.filesize_stored, <<>>)
    ELSE LET e == exists(hh, b)
         IN  IF e.kind = "raise" THEN e
             ELSE LET c == PyCall(e.val)
                  IN  IF c.kind = "raise" THEN Raise(e.h, c.exc, e.trace)
                      ELSE IF c.val = Some(TRUE)
                      THEN Ret([ e.h EXCEPT !.filesize_stored = Some(b.size) ],
                               Some(b.size),
                               e.trace \o Storage(e.h, "size", Some(b.size)))
                      ELSE Ret(e.h, None, e.trace)

\* the body of filesize asking default_storage.exists itself
filesize_func_direct(hh, b) ==
    IF hh.filesize_stored # None THEN Ret(hh, hh.filesize_stored, <<>>)
    ELSE LET e == Backend(hh, b, "exists", Some(b.exists))
         IN  IF e.kind = "raise" THEN e
             ELSE IF e.val = Some(TRUE)
             THEN LET s == Backend(hh, b, "size", Some(b.size))
                  IN  IF s.kind = "raise"
                      THEN Raise(hh, s.exc, e.trace \o s.trace)
                      ELSE Ret([ hh EXCEPT !.filesize_stored = s.val ],
                               s.val, e.trace \o s.trace)
             ELSE Ret(hh, None, e.trace)

\* the body of filesize
filesize_func(hh, b) ==
    IF hh.filesize_stored # None THEN Ret(hh, hh.filesize_stored, <<>>)
    ELSE LET e == exists(hh, b)
         IN  IF e.kind = "raise" THEN e
             ELSE LET c == PyCall(e.val)
                  IN  IF c.kind = "raise" THEN Raise(e.h, c.exc, e.trace)
                      ELSE IF c.val = Some(TRUE)
                      THEN LET s == Backend(e.h, b, "size", Some(b.size))
                           IN  IF s.kind = "raise"
                               THEN Raise(e.h, s.exc, e.trace \o s.trace)
                               ELSE Ret([ e.h EXCEPT !.filesize_stored = s.val ],
                                        s.val, e.trace \o s.trace)
                      ELSE Ret(e.h, None, e.trace)

\* self.filesize
filesize(hh, b) ==
    IF hh.dict.filesize # None THEN CacheHit(hh, "filesize")
    ELSE CacheStore(filesize_func(hh, b), "filesize")

\* the body of date
date_func(hh, b) ==
    IF hh.date_stored # None THEN Ret(hh, hh.date_stored, <<>>)
    ELSE LET e == exists(hh, b)
         IN  IF e.kind = "raise" THEN e
             ELSE LET c == PyCall(e.val)
                  IN  IF c.kind = "raise" THEN Raise(e.h, c.exc, e.trace)
                      ELSE IF c.val = Some(TRUE)
                      THEN LET s == Backend(e.h, b, "modified_time", Some(b.mtime))
                           IN  IF s.kind = "raise"
                               THEN Raise(e.h, s.exc, e.trace \o s.trace)
                               ELSE Ret([ e.h EXCEPT
                                            !.date_stored = Some(Mktime(s.val[1])) ],
                                        Some(Mktime(s.val[1])), e.trace \o s.trace)
                      ELSE Ret(e.h, None, e.trace)

\* self.date
date(hh, b) ==
    IF hh.dict.date # None THEN CacheHit(hh, "date")
    ELSE CacheStore(date_func(hh, b), "date")

\* is_empty looking at the child directories only
is_empty_dirs_only(hh, b) ==
    LET f == is_folder(hh, b)
    IN  IF f.kind = "raise" THEN f
        ELSE IF f.val = Some(TRUE)
        THEN LET listing == [ dirs |-> b.dirs, files |-> b.files ]
                 tr == f.trace \o Storage(f.h, "listdir", Some(listing))
             IN  IF listing.dirs = 0
                 THEN Ret(f.h, Some(TRUE), tr)
                 ELSE Ret(f.h, Some(FALSE), tr)
        ELSE Ret(f.h, Some(FALSE), f.trace)

\* is_empty turning every failure of the listing into the domain error
is_empty_catch_all(hh, b) ==
    LET f == is_folder(hh, b)
    IN  IF f.kind = "raise" THEN f
        ELSE IF f.val = Some(TRUE)
        THEN LET l == Backend(f.h, b, "listdir",
                              Some([ dirs |-> b.dirs, files |-> b.files ]))
                 tr == f.trace \o l.trace
             IN  IF l.kind = "raise"
                 THEN Raise(f.h, "FileSystemEncodingChanged", tr)
                 ELSE IF l.val[1].dirs = 0 /\ l.val[1].files = 0
                 THEN Ret(f.h, Some(TRUE), tr)
                 ELSE Ret(f.h, Some(FALSE), tr)
        ELSE Ret(f.h, Some(FALSE), f.trace)

\* is_empty noting the file type of a folder on the handle
is_empty_sets_type(hh, b) ==
    LET f == is_folder(hh, b)
    IN  IF f.kind = "raise" THEN f
        ELSE IF f.val = Some(TRUE)
        THEN LET l == Backend(f.h, b, "listdir",
                              Some([ dirs |-> b.dirs, files |-> b.files ]))
                 tr == f.trace \o l.trace
                 hf == [ f.h EXCEPT !.filetype_stored = Some("Folder") ]
             IN  IF l.kind = "raise"
                 THEN IF l.exc = "UnicodeDecodeError"
                      THEN Raise(hf, "FileSystemEncodingChanged", tr)
                      ELSE Raise(hf, l.exc, tr)
                 ELSE IF l.val[1].dirs = 0 /\ l.val[1].files = 0
                 THEN Ret(hf, Some(TRUE), tr)
                 ELSE Ret(hf, Some(FALSE), tr)
        ELSE Ret(f.h, Some(FALSE), f.trace)

\* self.is_empty
is_empty(hh, b) ==
    LET f == is_folder(hh, b)
    IN  IF f.kind = "raise" THEN f
        ELSE IF f.val = Some(TRUE)
        THEN LET l == Backend(f.h, b, "listdir",
                              Some([ dirs |-> b.dirs, files |-> b.files ]))
                 tr == f.trace \o l.trace
             IN  IF l.kind = "raise"
                 THEN IF l.exc = "UnicodeDecodeError"
                      THEN Raise(f.h, "FileSystemEncodingChanged", tr)
                      ELSE Raise(f.h, l.exc, tr)
                 ELSE IF l.val[1].dirs = 0 /\ l.val[1].files = 0
                 THEN Ret(f.h, Some(TRUE), tr)
                 ELSE Ret(f.h, Some(FALSE), tr)
        ELSE Ret(f.h, Some(FALSE), f.trace)

\* self.datetime
datetime(hh, b) ==
    LET d == date(hh, b)
    IN  IF d.kind = "raise" THEN d
        ELSE IF Truthy(d.val)
        THEN Ret(d.h, Some(Fromtimestamp(d.val[1])), d.trace)
        ELSE Ret(d.h, None, d.trace)

\* self.directory, get_directory() being base
directory(hh, base) ==
    LET p == path(hh)
    IN  Ret(hh, Some(path_strip(p.val[1], base)), p.trace)

\* path_relative_directory leaving the leading separators
path_relative_directory_unstripped(hh, base) == directory(hh, base)

\* self.path_relative_directory, get_directory() being base
path_relative_directory(hh, base) ==
    LET p == path(hh)
    IN  Ret(hh, Some(LStrip(path_strip(p.val[1], base), "/")), p.trace)

\* self.folder, get_directory() being base
folder(hh, base) ==
    Ret(hh, Some(Dirname(path_strip(JoinEmpty(hh.head), base))), <<>>)

\* len(self) as the size of the file
len_filesize(hh) ==
    IF hh.filesize_stored # None THEN Ret(hh, hh.filesize_stored, <<>>)
    ELSE Ret(hh, Some(0), <<>>)

\* len(self)
len(hh) == Ret(hh, Some(Len(path(hh).val[1])), path(hh).trace)

\* str(self)
str(hh) == Ret(hh, path(hh).val, path(hh).trace)

\* self.__class__.__name__
ClassName(hh) ==
    IF hh.kind = "bound"
    THEN << "F", "i", "e", "l", "d", "F", "i", "l", "e", "O", "b", "j", "e", "c", "t" >>
    ELSE << "F", "i", "l", "e", "O", "b", "j", "e", "c", "t" >>

\* repr(self): `self or "None"` is self when len(self) is not 0
repr(hh) ==
    LET shown == IF len(hh).val[1] # 0 THEN str(hh).val[1]
                 ELSE << "N", "o", "n", "e" >>
    IN  Ret(hh, Some(<< "<" >> \o ClassName(hh) \o << ":", " " >> \o shown \o << ">" >>),
            <<>>)

(* ----------------------------- FileObject ------------------------------ *)

\* url that asks the storage and keeps nothing
url_unstored(hh, b) ==
    IF hh.url_stored = None
    THEN Ret(hh, Some(b.url), Storage(hh, "url", Some(b.url)))
    ELSE Ret(hh, hh.url_stored, <<>>)

\* self.url
url(hh, b) ==
    IF hh.url_stored = None
    THEN LET s == Backend(hh, b, "url", Some(b.url))
         IN  IF s.kind = "raise" THEN s
             ELSE Ret([ hh EXCEPT !.url_stored = s.val ], s.val, s.trace)
    ELSE Ret(hh, hh.url_stored, <<>>)

(* --------------------------- FieldFileObject --------------------------- *)

\* delete with the two branches exchanged
delete_swapped(hh, b, save) ==
    LET f == is_folder(hh, b)
    IN  IF f.kind = "raise" THEN f
        ELSE IF f.val # Some(TRUE)
        THEN Ret(f.h, None, f.trace \o Storage(f.h, "rmtree", None))
        ELSE Ret(f.h, None,
                 f.trace \o << Call("FieldFile.delete", f.h.path, Some(save)) >>)

\* self.delete(**kwargs): returns None; the call of FieldFile.delete is kept
\* with the keyword arguments passed on
delete(hh, b, save) ==
    LET f == is_folder(hh, b)
    IN  IF f.kind = "raise" THEN f
        ELSE IF f.val = Some(TRUE)
        THEN LET s == Backend(f.h, b, "rmtree", None)
             IN  IF s.kind = "raise" THEN Raise(f.h, s.exc, f.trace \o s.trace)
                 ELSE Ret(f.h, None, f.trace \o s.trace)
        ELSE Ret(f.h, None,
                 f.trace \o << Call("FieldFile.delete", f.h.path, Some(save)) >>)

(* ------------------------------ the state ------------------------------ *)

Opt(S) == { None } \cup { Some(v) : v \in S }

Seeded(kw) ==
    Cardinality({ k \in DOMAIN kw : kw[k] # None })

\* the keyword arguments that give at most n values
Given(n) ==
    { kw \in [ is_dir : Opt(BOOLEAN), size : Opt(Sizes), exists : Opt(BOOLEAN),
               last_modified : Opt(DateTimes), url : Opt(SeedUrls) ] :
        Seeded(kw) <= n }

Kwargs == Given(MaxSeeded)

NoOp == [ op |-> "init", arg |-> None, kind |-> "ret", val |-> None, exc |-> "",
          trace |-> <<>>, pre |-> None ]

\* a path whose filename the classifier has a label for
ImagePath == << "d", "/", "A", ".", "j" >>

\* the handles of every path given nothing, and the handles of ImagePath
\* given up to MaxSeeded keyword arguments
Init ==
    /\ \/ \E kw \in Kwargs : h = FileObject(ImagePath, kw) /\ args = kw
       \/ \E p \in Paths : h = FileObject(p, NoKwargs) /\ args = NoKwargs
       \/ \E p \in Names : h = FieldFileObject(p) /\ args = NoKwargs
    /\ res = NoOp
    /\ seen = [ a \in LazyAttrs |-> None ]
    /\ calls = [ op \in Resolvers |-> 0 ]

Min(a, b) == IF a < b THEN a ELSE b

\* the handle operation `opn`, given `arg`, had outcome r: res.pre is what the
\* accessor returned the last time, None when it has not returned yet
Record(opn, arg, r) ==
    /\ h' = r.h
    /\ res' = [ op |-> opn, arg |-> arg, kind |-> r.kind, val |-> r.val,
                exc |-> r.exc,
                trace |-> r.trace,
                pre |-> IF opn \in LazyAttrs THEN seen[opn] ELSE None ]
    /\ seen' = IF opn \in LazyAttrs /\ r.kind = "ret"
               THEN [ seen EXCEPT ![opn] = Some(r.val) ]
               ELSE seen
    /\ calls' = IF r.trace = <<>> THEN calls
               ELSE [ op \in Resolvers |->
                        Min(CallCap, calls[op] + Answered(r.trace, op)) ]

\* the answers each operation can ask the storage for: a storage that says
\* the path is not there is asked for no size and no time, and one that says
\* it is no directory for no listing
AskIsdir == Answers({"isdir"})
AskExists == Answers({"exists"})
AskSize ==
    { b \in Answers({"exists", "size"}) : b.exists \/ b.size = Quiet.size }
AskMtime ==
    { b \in Answers({"exists", "mtime"}) : b.exists \/ b.mtime = Quiet.mtime }
AskListing ==
    { b \in Answers({"isdir", "dirs", "files"}) :
        b.isdir \/ (b.dirs = Quiet.dirs /\ b.files = Quiet.files) }
AskUrl == Answers({"url"})

Filetype ==
    \E b \in AskIsdir :
        LET r == filetype(h, b) IN Record("filetype", None, r) /\ UNCHANGED args

Filesize ==
    \E b \in AskSize :
        LET r == filesize(h, b) IN Record("filesize", None, r) /\ UNCHANGED args

Date ==
    \E b \in AskMtime :
        LET r == date(h, b) IN Record("date", None, r) /\ UNCHANGED args

Exists ==
    \E b \in AskExists :
        LET r == exists(h, b) IN Record("exists", None, r) /\ UNCHANGED args

IsFolder ==
    \E b \in AskIsdir :
        LET r == is_folder(h, b) IN Record("is_folder", None, r) /\ UNCHANGED args

IsEmpty ==
    \E b \in AskListing :
        LET r == is_empty(h, b) IN Record("is_empty", None, r) /\ UNCHANGED args

\* url is FileObject's: the bound handle has django's FieldFile.url instead
Url ==
    \E b \in AskUrl :
        LET r == url(h, b)
        IN  h.kind = "transient" /\ Record("url", None, r) /\ UNCHANGED args

\* delete is FieldFileObject's
Delete ==
    \E b \in AskIsdir, save \in SaveOptions :
        LET r == delete(h, b, save)
        IN  h.kind = "bound" /\ Record("delete", Some(save), r) /\ UNCHANGED args

\* FieldFile.name is assigned
SetName ==
    \E p \in Names :
        LET r == Ret([ h EXCEPT !.path = p ], None, <<>>)
        IN  h.kind = "bound" /\ p # h.path /\ Record("set_name", Some(p), r)
            /\ UNCHANGED args

Next ==
    \/ Filetype
    \/ Filesize
    \/ Date
    \/ Exists
    \/ IsFolder
    \/ IsEmpty
    \/ Url
    \/ Delete
    \/ SetName

Spec == Init /\ [][Next]_vars

(* ------------------------- the failing storage ------------------------ *)

\* the handles given is_dir and last_modified only
InitFail ==
    /\ \/ \E p \in Paths, kw \in Kwargs :
            /\ kw.size = None /\ kw.url = None /\ kw.exists = None
            /\ h = FileObject(p, kw) /\ args = kw
       \/ \E p \in Names : h = FieldFileObject(p) /\ args = NoKwargs
    /\ res = NoOp
    /\ seen = [ a \in LazyAttrs |-> None ]
    /\ calls = [ op \in Resolvers |-> 0 ]

\* the storage that says the path is there, and that it is a directory
Found == [ Quiet EXCEPT !.exists = TRUE ]
IsDir == [ Quiet EXCEPT !.isdir = TRUE ]

\* the storages each operation can meet a failing call of
FailIsdir == Failing({ Quiet }, {"isdir"}, Errors)
FailExists == Failing({ Quiet }, {"exists"}, Errors)
FailSize ==
    Failing({ Quiet }, {"exists"}, {"IOError"})
        \cup Failing({ Found }, {"size"}, {"IOError"})
FailMtime ==
    Failing({ Quiet }, {"exists"}, {"IOError"})
        \cup Failing({ Found }, {"modified_time"}, {"IOError"})
FailListing == FailIsdir \cup Failing({ IsDir }, {"listdir"}, Errors)
FailUrl == Failing({ Quiet }, {"url"}, {"IOError"})
FailRmtree ==
    Failing({ Quiet }, {"isdir"}, {"IOError"})
        \cup Failing({ IsDir }, {"rmtree"}, {"IOError"})

FiletypeFails ==
    \E b \in FailIsdir :
        LET r == filetype(h, b) IN Record("filetype", None, r) /\ UNCHANGED args

FilesizeFails ==
    \E b \in FailSize :
        LET r == filesize(h, b) IN Record("filesize", None, r) /\ UNCHANGED args

DateFails ==
    \E b \in FailMtime :
        LET r == date(h, b) IN Record("date", None, r) /\ UNCHANGED args

ExistsFails ==
    \E b \in FailExists :
        LET r == exists(h, b) IN Record("exists", None, r) /\ UNCHANGED args

IsFolderFails ==
    \E b \in FailIsdir :
        LET r == is_folder(h, b) IN Record("is_folder", None, r) /\ UNCHANGED args

IsEmptyFails ==
    \E b \in FailListing :
        LET r == is_empty(h, b) IN Record("is_empty", None, r) /\ UNCHANGED args

UrlFails ==
    \E b \in FailUrl :
        LET r == url(h, b)
        IN  h.kind = "transient" /\ Record("url", None, r) /\ UNCHANGED args

DeleteFails ==
    \E b \in FailRmtree, save \in SaveOptions :
        LET r == delete(h, b, save)
        IN  h.kind = "bound" /\ Record("delete", Some(save), r) /\ UNCHANGED args

Datetime ==
    \E b \in AskMtime \cup FailMtime :
        LET r == datetime(h, b) IN Record("datetime", None, r) /\ UNCHANGED args

NextFail ==
    \/ Next
    \/ FiletypeFails
    \/ FilesizeFails
    \/ DateFails
    \/ ExistsFails
    \/ IsFolderFails
    \/ IsEmptyFails
    \/ UrlFails
    \/ DeleteFails
    \/ Datetime

SpecFail == InitFail /\ [][NextFail]_vars

(* ------------------- the accessors that keep nothing ------------------- *)

\* the handles given size only, and the handle of the empty path
InitPure ==
    /\ \/ \E p \in Paths, kw \in Kwargs :
            /\ kw.exists = None /\ kw.last_modified = None /\ kw.url = None
            /\ kw.is_dir = None
            /\ h = FileObject(p, kw) /\ args = kw
       \/ h = FileObject(<<>>, NoKwargs) /\ args = NoKwargs
       \/ \E p \in Names : h = FieldFileObject(p) /\ args = NoKwargs
    /\ res = NoOp
    /\ seen = [ a \in LazyAttrs |-> None ]
    /\ calls = [ op \in Resolvers |-> 0 ]

\* the deprecated path property is FieldFileObject's
Path ==
    LET r == path(h)
    IN  h.kind = "bound" /\ Record("path", None, r) /\ UNCHANGED args

Name ==
    LET r == name(h) IN Record("name", None, r) /\ UNCHANGED args

Directory ==
    \E base \in Directories :
        LET r == directory(h, base)
        IN  Record("directory", Some(base), r) /\ UNCHANGED args

PathRelativeDirectory ==
    \E base \in Directories :
        LET r == path_relative_directory(h, base)
        IN  Record("path_relative_directory", Some(base), r) /\ UNCHANGED args

Folder ==
    \E base \in Directories :
        LET r == folder(h, base)
        IN  Record("folder", Some(base), r) /\ UNCHANGED args

\* FieldFileObject takes __repr__, __str__ and __len__ from django's File,
\* which comes before FileObjectAPI in its bases
Repr ==
    LET r == repr(h)
    IN  h.kind = "transient" /\ Record("repr", None, r) /\ UNCHANGED args

Str ==
    LET r == str(h)
    IN  h.kind = "transient" /\ Record("str", None, r) /\ UNCHANGED args

Length ==
    LET r == len(h)
    IN  h.kind = "transient" /\ Record("len", None, r) /\ UNCHANGED args

NextPure ==
    \/ Next
    \/ Datetime
    \/ Path
    \/ Name
    \/ Directory
    \/ PathRelativeDirectory
    \/ Folder
    \/ Repr
    \/ Str
    \/ Length

SpecPure == InitPure /\ [][NextPure]_vars

(* ------------------------------ properties ----------------------------- *)

\* the backend operation that resolves a lazy attribute
Resolver(a) ==
    CASE a = "filetype" -> "isdir"
      [] a = "filesize" -> "size"
      [] a = "date" -> "modified_time"
      [] a = "exists" -> "exists"
      [] a = "is_folder" -> "isdir"
      [] a = "url" -> "url"

\* the latest operation was accessor a, and a had returned before
Again(a) == res.op = a /\ res.pre # None

\* the handle holds that it is a folder
IsFolderNow == h.dict.is_folder = Some(Some(TRUE))

\* accessor a evaluated on handle hh under the storage answers b
Access(a, hh, b) ==
    CASE a = "filetype" -> filetype(hh, b)
      [] a = "filesize" -> filesize(hh, b)
      [] a = "date" -> date(hh, b)
      [] a = "exists" -> exists(hh, b)
      [] a = "is_folder" -> is_folder(hh, b)
      [] a = "url" -> url(hh, b)

\* the answers accessor a can ask the storage for
AskFor(a) ==
    CASE a = "filetype" -> AskIsdir
      [] a = "filesize" -> AskSize
      [] a = "date" -> AskMtime
      [] a = "exists" -> AskExists
      [] a = "is_folder" -> AskIsdir
      [] a = "url" -> AskUrl

C2_Snapshot ==
    \A a \in LazyAttrs :
        (Again(a) /\ res.pre[1] # None) =>
            (res.kind = "ret" /\ res.val = res.pre[1])

\* url came from the storage, other attributes were accessed, and url is
\* returned again
C2_Witness ==
    /\ Again("url")
    /\ res.pre[1] # None
    /\ calls["url"] = 1
    /\ seen["exists"] # None
    /\ seen["filetype"] # None

\* C3: with no size, last-modified or existence given, filesize and date
\* return None when the storage says the path does not exist, and nothing is
\* kept of that: after filesize (date) returned None, an access under a
\* storage that has the path with a size (a time) returns that value.
C3_NotFoundRetried ==
    /\ ( /\ res.op \in {"filesize", "date"}
         /\ args.size = None /\ args.last_modified = None /\ args.exists = None
         /\ HasCall(res.trace, "exists")
         /\ TheCall(res.trace, "exists").ans = Some(FALSE) )
       => (res.kind = "ret" /\ res.val = None)
    /\ (res.op = "filesize" /\ res.kind = "ret" /\ res.val = None)
       => \A b \in AskSize :
             b.exists => (filesize(h, b).kind = "ret"
                          /\ filesize(h, b).val = Some(b.size))
    /\ (res.op = "date" /\ res.kind = "ret" /\ res.val = None)
       => \A b \in AskMtime :
             b.exists => (date(h, b).kind = "ret"
                          /\ date(h, b).val = Some(Mktime(b.mtime)))

\* C4: a handle given size=s returns s from every access of filesize, 0
\* included, and filesize calls nothing: no storage operation, whatever
\* existence was given.
C4_SeededSize ==
    (res.op = "filesize" /\ args.size # None) =>
        /\ res.kind = "ret"
        /\ res.val = args.size
        /\ res.trace = <<>>
        /\ calls["size"] = 0

\* size=0 was given with exists=False, and filesize was accessed twice
C4_Witness ==
    /\ Again("filesize")
    /\ args.size = Some(0)
    /\ args.exists = Some(FALSE)

\* C5: a handle given exists, last_modified or url returns what was given from
\* every access of exists, date (as the timestamp the constructor made of
\* last_modified) and url, and the storage is never asked exists,
\* modified_time or url for it.
C5_SeededBypass ==
    /\ args.exists # None =>
         /\ calls["exists"] = 0
         /\ res.op = "exists" =>
              (res.kind = "ret" /\ res.val = args.exists /\ res.trace = <<>>)
    /\ args.last_modified # None =>
         /\ calls["modified_time"] = 0
         /\ res.op = "date" =>
              /\ res.kind = "ret"
              /\ res.val = Some(Mktime(args.last_modified[1]))
              /\ res.trace = <<>>
    /\ args.url # None =>
         /\ calls["url"] = 0
         /\ res.op = "url" =>
              (res.kind = "ret" /\ res.val = args.url /\ res.trace = <<>>)

\* exists=False and a last_modified were given; date was accessed after exists
C5_Witness ==
    /\ args.exists = Some(FALSE)
    /\ args.last_modified # None
    /\ seen["exists"] = Some(Some(FALSE))
    /\ Again("date")

\* C6: the storage is asked exists at most once for a handle, and what exists
\* returned once, False included, it returns from then on without asking:
\* whatever the storage answers by then, the access returns the same.
C6_ExistsPermanent ==
    /\ calls["exists"] <= 1
    /\ Again("exists") =>
         /\ res.kind = "ret"
         /\ res.val = res.pre[1]
         /\ ~HasCall(res.trace, "exists")
    /\ (res.op = "exists" /\ res.kind = "ret") =>
         \A b \in AskExists :
             /\ exists(h, b).val = res.val
             /\ exists(h, b).trace = <<>>

\* the storage answered False, and exists returned False again without a call
C6_Witness ==
    /\ Again("exists")
    /\ res.pre = Some(Some(FALSE))
    /\ res.val = Some(FALSE)
    /\ calls["exists"] = 1
    /\ args.exists = None

\* C7: a handle made with is_dir=True returns "Folder" from every access of
\* filetype, whatever its filename, and filetype calls neither the classifier
\* nor the storage's isdir.
C7_SeededFolderType ==
    (res.op = "filetype" /\ args.is_dir = Some(TRUE)) =>
        /\ res.kind = "ret"
        /\ res.val = Some("Folder")
        /\ res.trace = <<>>

\* is_dir=True was given for a filename with an image extension, and filetype
\* was accessed twice
C7_Witness ==
    /\ Again("filetype")
    /\ args.is_dir = Some(TRUE)
    /\ get_file_type(h.filename) = "Image"

\* C8: a handle made with is_dir given returns that value from every access
\* of is_folder and the storage's isdir is never called for it; only without
\* is_dir does is_folder come from one isdir call.
C8_SeededFolderFlag ==
    /\ (res.op = "is_folder" /\ args.is_dir # None) =>
         (res.kind = "ret" /\ res.val = args.is_dir /\ res.trace = <<>>)
    /\ (args.is_dir = None /\ h.kind = "transient" /\ seen["is_folder"] # None) =>
         calls["isdir"] = 1

\* C9: is_empty of a handle that is a folder lists the path once and returns
\* True exactly when the listing has no child directory and no child file; of
\* a handle that is not a folder it returns False and does not list.
C9_IsEmpty ==
    res.op = "is_empty" =>
        /\ res.kind = "ret"
        /\ IF IsFolderNow
           THEN /\ Count(res.trace, "listdir") = 1
                /\ LET l == TheCall(res.trace, "listdir").ans[1]
                   IN  res.val = Some(l.dirs = 0 /\ l.files = 0)
           ELSE /\ res.val = Some(FALSE)
                /\ ~HasCall(res.trace, "listdir")

\* a folder with no child directory and one child file is not empty
C9_Witness ==
    /\ res.op = "is_empty"
    /\ HasCall(res.trace, "listdir")
    /\ TheCall(res.trace, "listdir").ans[1] = [ dirs |-> 0, files |-> 1 ]
    /\ res.val = Some(FALSE)

\* C10: delete of a bound handle that is a folder calls rmtree once, on the
\* handle's name, and not FieldFile.delete; of one that is not a folder it
\* calls FieldFile.delete once, with the keyword arguments given, and not
\* rmtree.
C10_Delete ==
    res.op = "delete" =>
        /\ res.kind = "ret"
        /\ IF IsFolderNow
           THEN /\ Count(res.trace, "rmtree") = 1
                /\ TheCall(res.trace, "rmtree").path = h.path
                /\ ~HasCall(res.trace, "FieldFile.delete")
           ELSE /\ Count(res.trace, "FieldFile.delete") = 1
                /\ TheCall(res.trace, "FieldFile.delete").ans = res.arg
                /\ TheCall(res.trace, "FieldFile.delete").path = h.path
                /\ ~HasCall(res.trace, "rmtree")

\* a bound handle whose name was assigned is a folder and was deleted
C10_Witness ==
    /\ res.op = "delete"
    /\ HasCall(res.trace, "rmtree")
    /\ h.path # <<>>
    /\ h.filename # Basename(h.path)

\* the error is_empty raises for a listing that cannot be decoded
FileSystemEncodingChanged == "FileSystemEncodingChanged"

\* C11: an operation raises FileSystemEncodingChanged exactly when it is
\* is_empty and its listdir call failed with UnicodeDecodeError.  Every other
\* failure of a storage call (isdir within is_empty included) is raised to
\* the caller as the exception the storage raised; the failed call is the last
\* call of the operation and the only call of that storage operation in it
\* (no retry); and an operation raises a storage error only when a storage
\* call of it failed.
C11_Errors ==
    /\ res.exc = FileSystemEncodingChanged <=>
         /\ res.op = "is_empty"
         /\ HasCall(res.trace, "listdir")
         /\ TheCall(res.trace, "listdir").exc = "UnicodeDecodeError"
    /\ \A i \in 1..Len(res.trace) :
         res.trace[i].exc # "" =>
            /\ res.kind = "raise"
            /\ i = Len(res.trace)
            /\ Count(res.trace, res.trace[i].op) = 1
            /\ \/ res.exc = res.trace[i].exc
               \/ /\ res.op = "is_empty" /\ res.trace[i].op = "listdir"
                  /\ res.trace[i].exc = "UnicodeDecodeError"
    /\ res.exc \in Errors =>
         (res.trace # <<>> /\ res.trace[Len(res.trace)].exc = res.exc)

\* the listing of a folder could not be decoded and is_empty raised the
\* domain error
C11_Witness ==
    /\ res.op = "is_empty"
    /\ res.kind = "raise"
    /\ res.exc = FileSystemEncodingChanged
    /\ IsFolderNow

\* C12: every use of the path property of a bound handle returns (does not
\* raise), makes one call, the FutureWarning, and returns what the name
\* accessor returns of the handle then, also after name was assigned.
C12_PathWarns ==
    res.op = "path" =>
        /\ res.kind = "ret"
        /\ Len(res.trace) = 1
        /\ Count(res.trace, "warn") = 1
        /\ res.val = name(h).val

\* path was used after a different name was assigned to the bound handle
C12_Witness ==
    /\ res.op = "path"
    /\ h.kind = "bound"
    /\ res.val # Some(<<>>)
    /\ h.filename # Basename(h.path)

\* C13: datetime returns None exactly when date is None, and otherwise the
\* date-time of the timestamp date holds, the timestamp 0 included.
C13_DatetimeOfDate ==
    (res.op = "datetime" /\ res.kind = "ret") =>
        /\ h.dict.date # None
        /\ res.val = None <=> h.dict.date[1] = None
        /\ h.dict.date[1] # None =>
             res.val = Some(Fromtimestamp(h.dict.date[1][1]))

ExamplePath == << "/", "m", "e", "d", "i", "a", "/", "u", "p", "l", "o", "a", "d", "s", "/", "i", "m", "g", "/", "a", ".", "j", "p", "g" >>
ExampleBase == << "/", "m", "e", "d", "i", "a", "/", "u", "p", "l", "o", "a", "d", "s" >>
ExampleRelative == << "i", "m", "g", "/", "a", ".", "j", "p", "g" >>

\* the handle of the example path, under the example base
C15_Example ==
    path_relative_directory(FileObject(ExamplePath, NoKwargs), ExampleBase).val
        = Some(ExampleRelative)

\* C15: path_relative_directory is the path without the base directory in
\* front and then without leading separators: of a path that starts with the
\* base it does not begin with a separator, and it is directory without its
\* leading separators.  Of "/media/uploads/img/a.jpg" under the base
\* "/media/uploads" it is "img/a.jpg".
C15_RelativeDirectory ==
    /\ C15_Example
    /\ res.op = "path_relative_directory" =>
         LET base == res.arg[1]
             rel == res.val[1]
         IN  /\ res.kind = "ret"
             /\ StartsWith(h.path, base) =>
                  /\ rel = LStrip(SubSeq(h.path, Len(base) + 1, Len(h.path)), "/")
                  /\ rel = <<>> \/ rel[1] # "/"
             /\ rel = LStrip(directory(h, base).val[1], "/")

\* the path is under the base, and the separator after the base was removed
C15_Witness ==
    /\ res.op = "path_relative_directory"
    /\ StartsWith(h.path, res.arg[1])
    /\ directory(h, res.arg[1]).val[1] # <<>>
    /\ directory(h, res.arg[1]).val[1][1] = "/"
    /\ res.val = Some(<< "A", ".", "j" >>)

\* C16: in whatever order filetype and is_folder are accessed, a handle whose
\* is_folder is True has the filetype "Folder", and an access of filetype on
\* it returns "Folder" without a call of the classifier; the classifier is
\* called, and a label other than "Folder" returned, only on a handle whose
\* is_folder is False and that was not made with is_dir=True.
C16_FolderType ==
    /\ (IsFolderNow /\ h.dict.filetype # None) =>
         h.dict.filetype = Some(Some("Folder"))
    /\ (res.op = "filetype" /\ IsFolderNow) =>
         /\ res.kind = "ret"
         /\ res.val = Some("Folder")
         /\ ~HasCall(res.trace, "get_file_type")
    /\ HasCall(res.trace, "get_file_type") =>
         /\ res.op = "filetype"
         /\ res.val = TheCall(res.trace, "get_file_type").ans
    /\ (res.op = "filetype" /\ res.kind = "ret"
            /\ (res.val # Some("Folder") \/ HasCall(res.trace, "get_file_type"))) =>
         /\ h.dict.is_folder = Some(Some(FALSE))
         /\ args.is_dir # Some(TRUE)

\* is_folder was accessed first and answered True by the storage; filetype,
\* accessed after it, is "Folder" for a filename the classifier calls an image
C16_Witness ==
    /\ res.op = "filetype"
    /\ res.val = Some("Folder")
    /\ res.trace = <<>>
    /\ res.pre = None
    /\ args.is_dir = None
    /\ seen["is_folder"] = Some(Some(TRUE))
    /\ get_file_type(h.filename) = "Image"

\* C17: a transient handle on which filetype and is_folder are both resolved
\* and whose filetype is "Folder" has is_folder True.
C17_FolderTypeIsFolder ==
    ( /\ h.kind = "transient"
      /\ h.dict.filetype = Some(Some("Folder"))
      /\ h.dict.is_folder # None )
    => IsFolderNow

\* C18: on a handle not given exists, every access (filesize, date, datetime
\* and exists among them) asks the storage exists at most once, and no more
\* once the storage has answered: the answer is kept on the handle as it
\* was obtained, exists returns it, and at most one exists call is ever
\* answered.  (A call that failed left no answer and does not count.)
C18_OneExistsQuery ==
    [][ args.exists = None =>
          /\ calls'["exists"] <= 1
          /\ Count(res'.trace, "exists") <= 1
          /\ h.exists_stored # None =>
               /\ ~HasCall(res'.trace, "exists")
               /\ h'.exists_stored = h.exists_stored
               /\ h.dict.exists # None => h'.dict.exists = h.dict.exists
          /\ Answered(res'.trace, "exists") = 1 =>
               /\ h'.exists_stored = TheCall(res'.trace, "exists").ans
               /\ h'.dict.exists = Some(h'.exists_stored)
          /\ (res'.op = "exists" /\ res'.kind = "ret") =>
               res'.val = h'.exists_stored
          /\ h'.dict.exists # None => h'.dict.exists = Some(h'.exists_stored)
      ]_vars

\* filesize obtained the answer of the storage; exists, accessed for the first
\* time after it, returned that answer without a call
C18_Witness ==
    /\ res.op = "exists"
    /\ res.pre = None
    /\ res.kind = "ret"
    /\ res.trace = <<>>
    /\ args.exists = None
    /\ calls["exists"] = 1

\* the lazily cached attributes whose resolution calls the storage
Fallible == {"exists", "is_folder", "url", "filesize", "date"}

\* nothing is kept on handle hh for attribute a (is_folder is kept in the
\* __dict__ only: _is_folder_stored is what the constructor was given)
Unresolved(hh, a) ==
    CASE a = "url" -> hh.url_stored = None
      [] a = "is_folder" -> hh.dict[a] = None
      [] OTHER -> hh.dict[a] = None /\ hh[a \o "_stored"] = None

\* C19: when a storage call fails during an access of exists, is_folder, url,
\* filesize or date, the access raises that error, nothing is kept for the
\* attribute, what the handle held before is unchanged, and the next access
\* of the attribute calls the failed storage operation again and returns a
\* value when the storage answers.
C19_FailureNotCached ==
    [][ \A a \in Fallible :
          ( /\ res'.op = a /\ res'.kind = "raise" /\ res'.trace # <<>>
            /\ res'.trace[Len(res'.trace)].exc # "" )
          => /\ res'.exc = res'.trace[Len(res'.trace)].exc
             /\ Unresolved(h', a)
             /\ h' = h
             /\ \A b \in AskFor(a) :
                  HasCall(Access(a, h', b).trace, res'.trace[Len(res'.trace)].op)
             /\ \E b \in AskFor(a) : Access(a, h', b).kind = "ret"
      ]_vars

\* the attributes a handle is constructed with
Built(hh) ==
    << hh.path, hh.head, hh.filename, hh.filename_lower, hh.filename_root,
       hh.extension, hh.mimetype >>

\* what the handle keeps for a lazily cached attribute
Slot(hh, a) ==
    IF a = "url" THEN << hh.url_stored >>
    ELSE << hh[a \o "_stored"], hh.dict[a] >>

\* the attributes an accessor may resolve: its own and those it reads
MayResolve(op) ==
    CASE op = "filetype" -> {"filetype", "is_folder"}
      [] op = "filesize" -> {"filesize", "exists"}
      [] op = "date" -> {"date", "exists"}
      [] op = "datetime" -> {"date", "exists"}
      [] op = "exists" -> {"exists"}
      [] op = "is_folder" -> {"is_folder"}
      [] op = "is_empty" -> {"is_folder"}
      [] op = "url" -> {"url"}
      [] OTHER -> {}

\* C20: an access of any accessor of a transient handle leaves the path and
\* the attributes made at construction as they were, and changes what the
\* handle keeps only for the accessor's own attribute and those it reads
\* (exists for filesize, date and datetime; is_folder for filetype and
\* is_empty): every other slot, url among them, stays as it was, and
\* directory, folder, path_relative_directory, name, str, repr and len change
\* nothing on the handle.
C20_Frame ==
    [][ h.kind = "transient" =>
          /\ Built(h') = Built(h)
          /\ \A a \in LazyAttrs \ MayResolve(res'.op) : Slot(h', a) = Slot(h, a)
          /\ MayResolve(res'.op) = {} => h' = h
      ]_vars

\* url and exists were resolved by the storage before filetype resolved
\* is_folder and itself, and url and exists are still as they were
C20_Witness ==
    /\ h.kind = "transient"
    /\ res.op = "filetype"
    /\ HasCall(res.trace, "isdir")
    /\ calls["url"] = 1
    /\ seen["url"] = Some(h.url_stored)
    /\ calls["exists"] = 1
    /\ h.dict.exists # None

====
